---- MODULE Spec2Model ----
(***************************************************************************)
(* Model of the two maintenance scripts of Mapier-Hub:                     *)
(*   scripts/import_overture_us.py  (bulk load: count, page pulls,         *)
(*                                   transform, batched upsert + fallback) *)
(*   scripts/clear_places.py        (bulk delete: count, confirm,          *)
(*                                   fetch-a-page / delete-that-page loop) *)
(* Python values are modelled as tagged records so that None, the empty    *)
(* list, the empty string and 0 stay distinct values with Python's         *)
(* truthiness.                                                             *)
(***************************************************************************)
EXTENDS Integers, Sequences, FiniteSets, TLC

VARIABLES
    source,     \* rows matching the filter in the external dataset (immutable)
    args,       \* parsed command line: limit, dry_run, yes
    rejected,   \* ids whose record the store rejects (fixed per-record behaviour)
    store,      \* the 'places' table: a set of rows
    clock,      \* wall clock read by datetime.utcnow()
    run,        \* per invocation of import_overture_us.main: its locals
    snap,       \* the table as it was when the second invocation started
    mode,       \* how the scripts are scheduled: "single" (one invocation),
                \* "twice" (two imports in sequence), "concurrent" (two imports
                \* interleaved), "writer" (clear_places beside an inserting client)
    del,        \* locals of clear_places.main
    xf,         \* one call of transform_record: its argument and its result
    writes      \* the upserts the store has applied, in order: who wrote what

vars == <<source, args, rejected, store, clock, run, snap, mode, del, xf, writes>>

(***************************** bounds **************************************)
MaxRows == 4        \* longest source of a single invocation
TwiceRows == 3      \* longest source of two invocations in sequence
PageBound == 2      \* page size used for BATCH_SIZE (500 in the script)
SampleBound == 2    \* cap used for the error samples (5 in the script)
ConfirmBound == 2   \* threshold used for the confirmation prompt (10000 in the script)
ConcRows == 3       \* longest source of two invocations running at once
MaxLimit == 3       \* largest --limit tried
MaxPlaces == 5      \* largest table handed to clear_places
MaxFetches == 4     \* page fetches followed while another client inserts
WriterPlaces == 2   \* largest table at the start when another client inserts
WriterPool == 2     \* ids the other client inserts from
DelPageBound == 2   \* page size used by clear_places (1000 in the script)

(***************************** Python values *******************************)
PyNone == [py |-> "None"]
PyStr(s) == [py |-> "str", val |-> s]
PyInt(n) == [py |-> "int", val |-> n]
PyList(s) == [py |-> "list", items |-> s]
PyDict(s) == [py |-> "dict", items |-> s]
PyObject(s) == [py |-> "object", repr |-> s]

\* Python's truth value of an object (what `if x:` tests).
Truthy(v) ==
    CASE v.py = "None" -> FALSE
      [] v.py = "str" -> v.val # ""
      [] v.py = "int" -> v.val # 0
      [] v.py = "list" -> Len(v.items) > 0
      [] v.py = "dict" -> Len(v.items) > 0
      [] OTHER -> TRUE

Min(a, b) == IF a <= b THEN a ELSE b

(***************************** configuration *******************************)
OVERTURE_VERSION == "2025-11-19.0"
BATCH_SIZE == PageBound
SAMPLE_CAP == SampleBound
CONFIRM_OVER == ConfirmBound

Columns ==
    {"id", "name", "confidence", "primary_category", "alternate_categories",
     "brand", "operating_status", "websites", "socials", "phones", "emails",
     "street", "city", "state", "postcode", "country", "lon", "lat", "raw"}

ArrFields == {"alternate_categories", "websites", "socials", "phones", "emails"}

MetaFields == {"overture_version", "overture_updated_at", "updated_at"}

TimestampFields == {"overture_updated_at", "updated_at"}

(***************************** json ****************************************)
\* The JSON texts the source can deliver in `raw` and what json.loads makes of
\* them; any other text raises JSONDecodeError.
JsonTexts == {"{}", "{\"version\":1}"}

JsonLoads(text) ==
    IF text = "{}" THEN PyDict(<<>>) ELSE PyDict(<<PyInt(1)>>)

\* json.loads(json.dumps(d, default=str)): leaves json cannot encode become
\* their str().
JsonRoundTrip(d) ==
    PyDict([k \in 1..Len(d.items) |->
        IF d.items[k].py = "object" THEN PyStr(d.items[k].repr) ELSE d.items[k]])

(***************************** transform_record ****************************)
\* list(x) of a DuckDB array: the same elements in the same order.
ToList(v) == PyList(v.items)

\* Variant: only NULL becomes None, an empty array stays an empty list.
NormalizeArrayKeepEmpty(v) == IF v = PyNone THEN PyNone ELSE ToList(v)

\* `list(x) if x else None`
NormalizeArray(v) == IF Truthy(v) THEN ToList(v) ELSE PyNone

\* The `raw` handling raises exactly when raw is a non-empty string that is
\* not JSON.
RawRaises(v) == Truthy(v) /\ v.py = "str" /\ v.val \notin JsonTexts

DecodeRaw(v) ==
    IF ~Truthy(v) THEN v
    ELSE IF v.py = "str" THEN JsonLoads(v.val)
    ELSE IF v.py = "dict" THEN JsonRoundTrip(v)
    ELSE v

\* Result of transform_record(row, columns) at wall-clock time `now`:
\* ok = FALSE when the call raises.
TransformRecord(row, now) ==
    IF RawRaises(row["raw"])
    THEN [ok |-> FALSE, err |-> "JSONDecodeError", rec |-> PyNone]
    ELSE [ok |-> TRUE, err |-> "",
          rec |-> [f \in Columns \cup MetaFields |->
                    IF f \in ArrFields THEN NormalizeArray(row[f])
                    ELSE IF f = "raw" THEN DecodeRaw(row[f])
                    ELSE IF f = "overture_version" THEN PyStr(OVERTURE_VERSION)
                    ELSE IF f \in TimestampFields THEN PyInt(now)
                    ELSE row[f]]]

\* No call of transform_record is being looked at.
NoCall == [pc |-> "idle"]

(***************************** the source ***********************************)
IdNames == <<"poi1", "poi2", "poi3", "poi4", "poi5", "poi6", "poi7", "poi8">>

\* The kinds of row the filtered query delivers in this model:
\*   good    every column set, raw a JSON text
\*   badraw  raw a text that is not JSON
\*   noid    id is NULL, raw a native struct holding a non-primitive leaf
RowKinds == {"good", "badraw", "noid"}

SourceRow(kind, k) ==
    [f \in Columns |->
        IF f = "id" THEN (IF kind = "noid" THEN PyNone ELSE PyStr(IdNames[k]))
        ELSE IF f = "alternate_categories" THEN PyList(<<>>)
        ELSE IF f = "websites" THEN PyList(<<"w1", "w2">>)
        ELSE IF f = "socials" THEN PyNone
        ELSE IF f = "phones" THEN PyList(<<"+1">>)
        ELSE IF f = "emails" THEN (IF kind = "good" THEN PyList(<<>>) ELSE PyNone)
        ELSE IF f = "raw" THEN
            (IF kind = "good" THEN PyStr("{\"version\":1}")
             ELSE IF kind = "badraw" THEN PyStr("{oops")
             ELSE PyDict(<<PyInt(1), PyObject("2025-11-19")>>))
        ELSE IF f \in {"confidence", "lon", "lat"} THEN PyInt(k)
        ELSE PyStr(f)]

\* Every source of at most n rows; ids are unique within a source.
Sources(n) ==
    UNION {{[k \in 1..len |-> SourceRow(kinds[k], k)] :
                kinds \in [1..len -> RowKinds]} : len \in 0..n}

\* Ids of the rows of src that transform_record turns into a record with a key.
WritableIds(src) ==
    {src[k]["id"] : k \in {j \in 1..Len(src) :
        ~RawRaises(src[j]["raw"]) /\ src[j]["id"] # PyNone}}

Limits == {PyNone} \cup {PyInt(n) : n \in 0..MaxLimit}

(***************************** the store ************************************)
RowIds(tbl) == {r["id"] : r \in tbl}

\* Variant: a plain insert, no conflict target.
InsertOne(tbl, rec) == tbl \cup {rec}

\* upsert(record, on_conflict='id'): insert, or overwrite the row of that id.
UpsertOne(tbl, rec) == {r \in tbl : r["id"] # rec["id"]} \cup {rec}

\* Variant: the batch replaces the table's content.
UpsertAllReplacingTable(tbl, batch) == {batch[k] : k \in 1..Len(batch)}

\* Variant: INSERT ... ON CONFLICT DO NOTHING, a row already in the table
\* wins over the record sent.
RECURSIVE UpsertAllKeepExisting(_, _)
UpsertAllKeepExisting(tbl, batch) ==
    IF batch = <<>> THEN tbl
    ELSE UpsertAllKeepExisting(
            IF Head(batch)["id"] \in RowIds(tbl) THEN tbl
            ELSE UpsertOne(tbl, Head(batch)),
            Tail(batch))

\* upsert(batch, on_conflict='id'): each record in turn.
RECURSIVE UpsertAll(_, _)
UpsertAll(tbl, batch) ==
    IF batch = <<>> THEN tbl
    ELSE UpsertAll(UpsertOne(tbl, Head(batch)), Tail(batch))

\* `id` is the table's primary key: a NULL id is always rejected; the other
\* rejections are the store's fixed per-record behaviour.
StoreRejects(rec) == rec["id"] = PyNone \/ rec["id"] \in rejected

\* A table that already holds a stale row of the first source row and a row
\* no source row names.
StaleRow ==
    [TransformRecord(SourceRow("good", 1), 0).rec
        EXCEPT !["overture_version"] = PyStr("2025-10-22.0")]

LegacyRow ==
    [TransformRecord(SourceRow("good", 1), 0).rec
        EXCEPT !["id"] = PyStr("legacy")]

InitialStores == {{}, {StaleRow, LegacyRow}}

(***************************** import_overture_us.main *********************)
Procs == IF mode \in {"twice", "concurrent"} THEN {1, 2} ELSE {1}

Terminal == {"done", "aborted", "crashed"}

NoReport == [kind |-> "none"]

\* The locals of main() before its first statement.
InitRun ==
    [pc |-> "start",
     total |-> 0,            \* `total`, printed as "Records to import"
     result |-> <<>>,        \* rows the executed query delivers
     pos |-> 0,              \* rows of `result` already fetched
     rows |-> <<>>,          \* the page of the last fetchmany
     batch |-> <<>>,         \* records of the last page that transformed
     idx |-> 0,              \* position of the fallback loop in `batch`
     imported |-> 0,
     errors |-> 0,
     error_samples |-> <<>>,
     pulled |-> 0,           \* rows returned by all fetchmany calls so far
     nPulls |-> 0,           \* fetchmany calls issued
     nBatchCalls |-> 0,      \* multi-record upsert calls issued
     nSingleCalls |-> 0,     \* single-record upsert calls issued
     offered |-> 0,          \* records handed to the sink so far
     calls |-> <<>>,         \* upsert calls issued for the last page, in order
     imp0 |-> 0,             \* `imported` when the last batch reached the sink
     err0 |-> 0,             \* `errors` when the last batch reached the sink
     samp0 |-> 0,            \* len(error_samples) at that moment
     reported |-> NoReport]  \* what the run printed as its result

\* count_records: COUNT(*) of the rows matching the filter.
CountRecords(src) == Len(src)

\* `if args.limit: total = min(total, args.limit)`
CappedTotal(count, limit) ==
    IF Truthy(limit) THEN Min(count, limit.val) ELSE count

\* Variant: the LIMIT clause is never appended.
BuildQueryNoLimit(limit, src) == src

\* build_query + con.execute: the rows the query delivers, LIMIT applied
\* when `if limit:` holds.
BuildQuery(limit, src) ==
    IF Truthy(limit) THEN SubSeq(src, 1, Min(limit.val, Len(src))) ELSE src

\* result.fetchmany(size): the next rows of the forward-only cursor.
FetchMany(result, pos, size) == SubSeq(result, pos + 1, Min(pos + size, Len(result)))

TransformSample(err) == [kind |-> "Transform error", id |-> PyNone, msg |-> err]

\* f"Insert error for {record.get('id', '?')}: {e2}"
InsertSample(record) == [kind |-> "Insert error", id |-> record["id"], msg |-> "rejected"]

\* Variant: every error message is kept.
AddSampleUncapped(samples, s) == Append(samples, s)

\* `if len(error_samples) < 5: error_samples.append(...)`
AddSample(samples, s) ==
    IF Len(samples) < SAMPLE_CAP THEN Append(samples, s) ELSE samples

\* Variant: the first row that fails to transform ends the page's loop.
RECURSIVE TransformPageStopOnError(_, _)
TransformPageStopOnError(rows, acc) ==
    IF rows = <<>> THEN acc
    ELSE LET t == TransformRecord(Head(rows), acc.clock)
         IN IF t.ok
            THEN TransformPageStopOnError(Tail(rows),
                    [acc EXCEPT !.batch = Append(@, t.rec), !.clock = @ + 1])
            ELSE [acc EXCEPT !.errors = @ + 1,
                             !.samples = AddSample(@, TransformSample(t.err)),
                             !.clock = @ + 1]

\* The `for row in rows` loop: acc carries batch, errors, error_samples and
\* the clock.
RECURSIVE TransformPage(_, _)
TransformPage(rows, acc) ==
    IF rows = <<>> THEN acc
    ELSE LET t == TransformRecord(Head(rows), acc.clock)
             nxt == IF t.ok
                    THEN [acc EXCEPT !.batch = Append(@, t.rec),
                                     !.clock = @ + 1]
                    ELSE [acc EXCEPT !.errors = @ + 1,
                                     !.samples = AddSample(@, TransformSample(t.err)),
                                     !.clock = @ + 1]
         IN TransformPage(Tail(rows), nxt)

BatchIds(batch) == [k \in 1..Len(batch) |-> batch[k]["id"]]

\* Variant: the page size is counted instead of the batch length.
BatchImportedAsPageSize(batch) == BATCH_SIZE

\* `imported += len(batch)` after a successful multi-record upsert.
BatchImported(batch) == Len(batch)

\* Variant: the batch is counted before the call's outcome is known.
ImportedAfterBatchCountedEarly(imported, batch, ok) == imported + Len(batch)

\* `imported` after the multi-record upsert returned (ok) or raised (~ok).
ImportedAfterBatch(imported, batch, ok) ==
    IF ok THEN imported + BatchImported(batch) ELSE imported

\* Variant: the fallback loop stops at the first failed attempt.
AfterSingleStopOnFailure(idx, ok) == IF ok THEN idx + 1 ELSE BATCH_SIZE + 1

\* The fallback loop's next position after the attempt on batch[idx].
AfterSingle(idx, ok) == idx + 1

Summary(r) ==
    [kind |-> "summary", imported |-> r.imported, errors |-> r.errors,
     samples |-> r.error_samples]

\* Lines 190-197: count, cap the total, print it.
CountStep(p) ==
    /\ run[p].pc = "start"
    /\ (p = 2 /\ mode = "twice") => run[1].pc \in Terminal
    /\ run' = [run EXCEPT ![p].pc = "counted",
                          ![p].total = CappedTotal(CountRecords(source), args.limit)]
    /\ snap' = IF p = 2 /\ mode = "twice" THEN store ELSE snap
    /\ UNCHANGED <<source, args, rejected, store, clock, mode, del, xf, writes>>

\* Variant: the dry-run flag does not end the run; the import starts.
DryRunFallsThrough(p) ==
    /\ run[p].pc = "counted"
    /\ args.dry_run
    /\ run' = [run EXCEPT ![p].pc = "fetch",
                          ![p].result = source]
    /\ UNCHANGED <<source, args, rejected, store, clock, snap, mode, del, xf, writes>>

\* Lines 204-206: --dry-run returns after the count.
DryRunExit(p) ==
    /\ run[p].pc = "counted"
    /\ args.dry_run
    /\ run' = [run EXCEPT ![p].pc = "done",
                          ![p].reported = [kind |-> "dry", count |-> run[p].total]]
    /\ UNCHANGED <<source, args, rejected, store, clock, snap, mode, del, xf, writes>>

NeedsConfirm(r) == r.total > CONFIRM_OVER /\ ~args.yes

\* Lines 209-213: the prompt is answered with something other than 'y'.
ConfirmAbort(p) ==
    /\ run[p].pc = "counted"
    /\ ~args.dry_run
    /\ NeedsConfirm(run[p])
    /\ run' = [run EXCEPT ![p].pc = "aborted"]
    /\ UNCHANGED <<source, args, rejected, store, clock, snap, mode, del, xf, writes>>

\* Lines 209-235: no prompt, or the answer 'y'; the query is built and
\* executed and the counters start at 0.
StartImport(p) ==
    /\ run[p].pc = "counted"
    /\ ~args.dry_run
    /\ run' = [run EXCEPT ![p].pc = "fetch",
                          ![p].result = BuildQuery(args.limit, source),
                          ![p].pos = 0,
                          ![p].imported = 0,
                          ![p].errors = 0,
                          ![p].error_samples = <<>>]
    /\ UNCHANGED <<source, args, rejected, store, clock, snap, mode, del, xf, writes>>

\* Lines 239-253 and 275-285: one fetchmany; an empty page leaves the loop
\* and prints the summary, any other page is transformed row by row.
Pull(p) ==
    /\ run[p].pc = "fetch"
    /\ LET r == run[p]
           rows == FetchMany(r.result, r.pos, BATCH_SIZE)
           acc == TransformPage(rows, [batch |-> <<>>, errors |-> r.errors,
                                       samples |-> r.error_samples, clock |-> clock])
       IN IF rows = <<>>
          THEN /\ run' = [run EXCEPT ![p].pc = "done",
                                     ![p].nPulls = @ + 1,
                                     ![p].rows = rows,
                                     ![p].reported = Summary(r)]
               /\ clock' = clock
          ELSE /\ run' = [run EXCEPT
                            ![p].pc = IF acc.batch # <<>> THEN "upsert" ELSE "fetch",
                            ![p].nPulls = @ + 1,
                            ![p].pos = @ + Len(rows),
                            ![p].pulled = @ + Len(rows),
                            ![p].rows = rows,
                            ![p].batch = acc.batch,
                            ![p].idx = 0,
                            ![p].errors = acc.errors,
                            ![p].error_samples = acc.samples,
                            ![p].calls = <<>>,
                            ![p].imp0 = r.imported,
                            ![p].err0 = acc.errors,
                            ![p].samp0 = Len(acc.samples)]
               /\ clock' = acc.clock
    /\ UNCHANGED <<source, args, rejected, store, snap, mode, del, xf, writes>>

\* Line 239 raising: the source became unreachable; the exception leaves
\* main() and nothing after the loop runs.
PullFault(p) ==
    /\ run[p].pc = "fetch"
    /\ run' = [run EXCEPT ![p].pc = "crashed", ![p].nPulls = @ + 1]
    /\ UNCHANGED <<source, args, rejected, store, clock, snap, mode, del, xf, writes>>

\* The log entries of invocation p having written the records of batch.
Written(p, batch) == [k \in 1..Len(batch) |-> [by |-> p, rec |-> batch[k]]]

\* Lines 254-262: the multi-record upsert.  The store applies it as one
\* statement: all rows, or (on any rejection or fault) none.
BatchUpsert(p) ==
    /\ run[p].pc = "upsert"
    /\ LET r == run[p] IN
       \E ok \in BOOLEAN :
          /\ ok => \A k \in 1..Len(r.batch) : ~StoreRejects(r.batch[k])
          /\ store' = IF ok THEN UpsertAll(store, r.batch) ELSE store
          /\ writes' = IF ok THEN writes \o Written(p, r.batch) ELSE writes
          /\ run' = [run EXCEPT
                       ![p].pc = IF ok THEN "fetch" ELSE "fallback",
                       ![p].idx = IF ok THEN 0 ELSE 1,
                       ![p].imported = ImportedAfterBatch(@, r.batch, ok),
                       ![p].nBatchCalls = @ + 1,
                       ![p].offered = @ + Len(r.batch),
                       ![p].calls = Append(@, [kind |-> "batch",
                                               ids |-> BatchIds(r.batch),
                                               ok |-> ok])]
    /\ UNCHANGED <<source, args, rejected, clock, snap, mode, del, xf>>

\* Lines 263-273: one pass of the fallback loop, for batch[idx].
SingleUpsert(p) ==
    /\ run[p].pc = "fallback"
    /\ LET r == run[p]
           record == r.batch[r.idx]
           ok == ~StoreRejects(record)
           nxt == AfterSingle(r.idx, ok)
       IN /\ store' = IF ok THEN UpsertOne(store, record) ELSE store
          /\ writes' = IF ok THEN writes \o Written(p, <<record>>) ELSE writes
          /\ run' = [run EXCEPT
                       ![p].pc = IF nxt > Len(r.batch) THEN "fetch" ELSE "fallback",
                       ![p].idx = nxt,
                       ![p].imported = IF ok THEN @ + 1 ELSE @,
                       ![p].errors = IF ok THEN @ ELSE @ + 1,
                       ![p].error_samples =
                            IF ok THEN @ ELSE AddSample(@, InsertSample(record)),
                       ![p].nSingleCalls = @ + 1,
                       ![p].calls = Append(@, [kind |-> "single",
                                               ids |-> <<record["id"]>>,
                                               ok |-> ok])]
    /\ UNCHANGED <<source, args, rejected, clock, snap, mode, del, xf>>

(***************************** clear_places.main ***************************)
DELETE_PAGE == DelPageBound

\* The locals of clear_places.main() before its first statement.
InitDel ==
    [pc |-> "start",
     total |-> 0,        \* `total`, the count read at the start
     confirm |-> PyNone, \* `confirm`, the answer typed at the prompt
     ids |-> {},         \* `ids`, the page just fetched
     deleted |-> 0,      \* `deleted`
     fetches |-> 0,      \* select('id').limit(1000) calls issued
     cycles |-> <<>>,    \* per delete call: ids asked, ids the table lost
     gone |-> {}]        \* ids handed to a delete call so far

\* Position of an id in the table's key order.
IdRank(tbl, id) ==
    LET pos(i) == CHOOSE k \in 1..Len(IdNames) : IdNames[k] = i.val
    IN Cardinality({j \in RowIds(tbl) : pos(j) <= pos(id)})

\* Variant: range(deleted, deleted + n - 1), a page by offset into the
\* table in key order.
FetchPagesByOffset(tbl, n) ==
    {{i \in RowIds(tbl) :
        IdRank(tbl, i) > del.deleted /\ IdRank(tbl, i) <= del.deleted + n}}

\* Variant: the page is one row short of the limit.
FetchPagesOneShort(tbl, n) ==
    {S \in SUBSET RowIds(tbl) :
        Cardinality(S) = Min(IF n > 1 THEN n - 1 ELSE n, Cardinality(RowIds(tbl)))}

\* select('id').limit(n): any n surviving rows, or all of them when fewer.
FetchPages(tbl, n) ==
    {S \in SUBSET RowIds(tbl) : Cardinality(S) = Min(n, Cardinality(RowIds(tbl)))}

\* delete().in_('id', ids)
DeleteIn(tbl, ids) == {r \in tbl : r["id"] \notin ids}

\* Lines 36-41: the count; an empty table ends the script.
DelCount ==
    /\ del.pc = "start"
    /\ del' = [del EXCEPT !.total = Cardinality(store),
                          !.pc = IF Cardinality(store) = 0 THEN "empty" ELSE "confirm"]
    /\ UNCHANGED <<source, args, rejected, store, clock, run, snap, mode, xf, writes>>

\* What the operator can type at the prompt.
Answers == {"y", "Y", "n", "", "yes", "YES"}

\* str.lower() on those answers.
Lower(s) == IF s = "Y" THEN "y" ELSE IF s = "YES" THEN "yes" ELSE s

\* Variant: the answer is read but the script goes on whatever it is.
DelAbortIgnored ==
    /\ del.pc = "confirm"
    /\ \E a \in Answers :
          /\ Lower(a) # "y"
          /\ del' = [del EXCEPT !.pc = "loop", !.confirm = PyStr(a), !.deleted = 0]
    /\ UNCHANGED <<source, args, rejected, store, clock, run, snap, mode, xf, writes>>

\* Lines 44-48: any answer but 'y' or 'Y'.
DelAbort ==
    /\ del.pc = "confirm"
    /\ \E a \in Answers :
          /\ Lower(a) # "y"
          /\ del' = [del EXCEPT !.pc = "aborted", !.confirm = PyStr(a)]
    /\ UNCHANGED <<source, args, rejected, store, clock, run, snap, mode, xf, writes>>

\* Lines 44-53: the answer 'y' or 'Y'.
DelProceed ==
    /\ del.pc = "confirm"
    /\ \E a \in Answers :
          /\ Lower(a) = "y"
          /\ del' = [del EXCEPT !.pc = "loop", !.confirm = PyStr(a), !.deleted = 0]
    /\ UNCHANGED <<source, args, rejected, store, clock, run, snap, mode, xf, writes>>

\* Variant: `while deleted < total` in place of `while True`.
DelFetchUntilTotal ==
    /\ del.pc = "loop"
    /\ mode = "writer" => del.fetches < MaxFetches
    /\ \E page \in FetchPages(store, DELETE_PAGE) :
          del' = [del EXCEPT !.pc = IF page = {} \/ del.deleted >= del.total
                                    THEN "done" ELSE "delete",
                             !.ids = page,
                             !.fetches = @ + 1]
    /\ UNCHANGED <<source, args, rejected, store, clock, run, snap, mode, xf, writes>>

\* Lines 55-59: fetch a page of ids; an empty page ends the loop.  With
\* another client inserting, the loop is followed for MaxFetches fetches.
DelFetch ==
    /\ del.pc = "loop"
    /\ mode = "writer" => del.fetches < MaxFetches
    /\ \E page \in FetchPages(store, DELETE_PAGE) :
          del' = [del EXCEPT !.pc = IF page = {} THEN "done" ELSE "delete",
                             !.ids = page,
                             !.fetches = @ + 1]
    /\ UNCHANGED <<source, args, rejected, store, clock, run, snap, mode, xf, writes>>

\* Variant: the counter advances by the page limit, not by the page.
DeletedAfterFullPage(deleted, ids) == deleted + DELETE_PAGE

\* `deleted += len(ids)`
DeletedAfter(deleted, ids) == deleted + Cardinality(ids)

\* Lines 60-62: delete the ids just fetched and count them.
DelDelete ==
    /\ del.pc = "delete"
    /\ store' = DeleteIn(store, del.ids)
    /\ del' = [del EXCEPT !.pc = "loop",
                          !.deleted = DeletedAfter(@, del.ids),
                          !.gone = @ \cup del.ids,
                          !.cycles = Append(@, [asked |-> del.ids,
                                                lost |-> RowIds(store) \ RowIds(store')])]
    /\ UNCHANGED <<source, args, rejected, clock, run, snap, mode, xf, writes>>

\* Another client of the table inserts a row whose id the table does not
\* hold, while clear_places is between its count and the end of its loop.
WriterInsert ==
    /\ mode = "writer"
    /\ del.pc \in {"confirm", "loop", "delete"}
    /\ \E k \in 1..WriterPool :
          /\ PyStr(IdNames[k]) \notin RowIds(store)
          /\ store' = UpsertOne(store, TransformRecord(SourceRow("good", k), clock).rec)
    /\ UNCHANGED <<source, args, rejected, clock, run, snap, mode, del, xf, writes>>

DeleteNext ==
    \/ DelCount
    \/ DelAbort
    \/ DelProceed
    \/ DelFetch
    \/ DelDelete

Next ==
    \/ \E p \in Procs : CountStep(p)
    \/ \E p \in Procs : DryRunExit(p)
    \/ \E p \in Procs : ConfirmAbort(p)
    \/ \E p \in Procs : StartImport(p)
    \/ \E p \in Procs : Pull(p)
    \/ \E p \in Procs : PullFault(p)
    \/ \E p \in Procs : BatchUpsert(p)
    \/ \E p \in Procs : SingleUpsert(p)

\* States of a first invocation: any bounded source, any command line, any
\* fixed set of records the store rejects, an empty or a populated table.
InitLoad(m, n) ==
    /\ mode = m
    /\ source \in Sources(n)
    /\ args \in [limit : Limits, dry_run : BOOLEAN, yes : BOOLEAN]
    /\ rejected \in SUBSET WritableIds(source)
    /\ store \in InitialStores
    /\ clock = 1
    /\ run = [p \in Procs |-> InitRun]
    /\ snap = store
    /\ del = InitDel
    /\ xf = NoCall
    /\ writes = <<>>

Init == InitLoad("single", MaxRows)

\* One invocation of the importer.
Spec == Init /\ [][Next]_vars

\* Two invocations of the importer over the same source and command line,
\* the second started after the first has ended.
InitTwice == InitLoad("twice", TwiceRows)

TwiceSpec == InitTwice /\ [][Next]_vars

\* A row of the table as the importer writes it.
PlaceRow(k) == TransformRecord(SourceRow("good", k), 0).rec

\* clear_places against a table of 0..MaxPlaces rows, nothing else running.
InitDelete ==
    /\ mode = "single"
    /\ source = <<>>
    /\ args = [limit |-> PyNone, dry_run |-> FALSE, yes |-> FALSE]
    /\ rejected = {}
    /\ store \in {{PlaceRow(k) : k \in 1..t} : t \in 0..MaxPlaces}
    /\ clock = 1
    /\ run = [p \in Procs |-> InitRun]
    /\ snap = store
    /\ del = InitDel
    /\ xf = NoCall
    /\ writes = <<>>

\* The script is a sequential program: it keeps taking its next step.
DeleteSpec == InitDelete /\ [][DeleteNext]_vars /\ WF_vars(DeleteNext)

(***************************** properties: the load run ********************)
\* A run that left the loop normally and printed its summary.
Completed(r) == r.pc = "done" /\ r.reported.kind = "summary"

\* The single-record calls issued for the last batch, in order.
Singles(r) == SubSeq(r.calls, 2, Len(r.calls))

FailedCount(calls) == Cardinality({k \in 1..Len(calls) : ~calls[k].ok})

RECURSIVE FailedIds(_)
FailedIds(calls) ==
    IF calls = <<>> THEN <<>>
    ELSE IF Head(calls).ok THEN FailedIds(Tail(calls))
    ELSE <<Head(calls).ids[1]>> \o FailedIds(Tail(calls))

\* The sink has run for the last batch and has finished with it.
SinkFinished(r) == r.calls # <<>> /\ r.pc \notin {"upsert", "fallback"}

\* C1: when a load run completes, imported + errors equals the number of
\* rows all its page pulls returned, whatever rows failed to transform and
\* whatever multi-record and single-record upserts failed.
C1_ImportedPlusErrorsIsPulled ==
    \A p \in Procs :
        Completed(run[p]) => run[p].imported + run[p].errors = run[p].pulled

\* A completed run that saw a transform failure, a failed multi-record
\* upsert, a failed single-record upsert and a successful write.
C1_Witness ==
    \E p \in Procs :
        /\ Completed(run[p])
        /\ run[p].pulled = MaxRows
        /\ run[p].imported >= 2
        /\ run[p].errors >= 2
        /\ run[p].nSingleCalls > FailedCount(Singles(run[p]))
        /\ \E k \in 1..Len(run[p].error_samples) :
              run[p].error_samples[k].kind = "Transform error"
        /\ \E k \in 1..Len(run[p].error_samples) :
              run[p].error_samples[k].kind = "Insert error"

\* C2: once the multi-record upsert of a batch of n records has failed,
\* every record gets exactly one single-record attempt, in order, whether
\* or not earlier attempts failed; with f failed attempts the batch adds
\* n - f to imported and f to errors, and every sample recorded for a failed
\* attempt names the id of the record that failed.
C2_FallbackIsolatesFailures ==
    \A p \in Procs :
        LET r == run[p]
            n == Len(r.batch)
            singles == Singles(r)
            f == FailedCount(singles)
            fresh == SubSeq(r.error_samples, r.samp0 + 1, Len(r.error_samples))
        IN (r.calls # <<>> /\ ~r.calls[1].ok) =>
              /\ \A k \in 1..Len(singles) :
                    /\ k <= n
                    /\ singles[k].kind = "single"
                    /\ singles[k].ids = <<r.batch[k]["id"]>>
              /\ r.pc = "fallback" => Len(singles) = r.idx - 1 /\ r.idx <= n
              /\ r.pc # "fallback" => Len(singles) = n
              /\ r.imported = r.imp0 + Len(singles) - f
              /\ r.errors = r.err0 + f
              /\ Len(fresh) <= f
              /\ \A j \in 1..Len(fresh) :
                    /\ fresh[j].kind = "Insert error"
                    /\ fresh[j].id = FailedIds(singles)[j]

\* A finished fallback over a full batch whose first record failed and whose
\* next record was still attempted and written, the failure sampled.
C2_Witness ==
    \E p \in Procs :
        LET r == run[p] IN
        /\ SinkFinished(r)
        /\ ~r.calls[1].ok
        /\ Len(r.batch) = BATCH_SIZE
        /\ ~r.calls[2].ok
        /\ r.calls[3].ok
        /\ r.imported = r.imp0 + BATCH_SIZE - 1
        /\ Len(r.error_samples) > r.samp0

\* C3: a non-empty batch is first sent in exactly one multi-record upsert.
\* If it succeeds imported grows by the batch length and no single-record
\* call follows; if it fails nothing is counted for it and the records are
\* sent one by one in the batch's order.
C3_BatchFirstThenSingles ==
    \A p \in Procs :
        LET r == run[p]
            n == Len(r.batch)
        IN /\ r.pc = "upsert" => n > 0 /\ r.calls = <<>>
           /\ (r.pc \in {"fetch", "done", "crashed"} /\ n > 0) => r.calls # <<>>
           /\ r.calls # <<>> =>
                /\ r.calls[1].kind = "batch"
                /\ r.calls[1].ids = BatchIds(r.batch)
                /\ \A k \in 2..Len(r.calls) : r.calls[k].kind = "single"
                /\ r.calls[1].ok =>
                      Len(r.calls) = 1 /\ r.imported = r.imp0 + n
                /\ ~r.calls[1].ok =>
                      /\ Len(r.calls) = 1 => r.imported = r.imp0
                      /\ r.imported <= r.imp0 + Len(r.calls) - 1
                      /\ Len(r.calls) <= 1 + n
                      /\ \A k \in 2..Len(r.calls) :
                            r.calls[k].ids = <<r.batch[k - 1]["id"]>>
                      /\ r.pc # "fallback" => Len(r.calls) = 1 + n

\* A run whose earlier batch failed and went through the fallback and whose
\* last full batch succeeded in one call.
C3_Witness ==
    \E p \in Procs :
        LET r == run[p] IN
        /\ SinkFinished(r)
        /\ r.calls[1].ok
        /\ Len(r.batch) = BATCH_SIZE
        /\ r.nSingleCalls = BATCH_SIZE
        /\ r.nBatchCalls = 2
        /\ r.imported = r.imp0 + BATCH_SIZE

(***************************** properties: the delete run ******************)
CeilDiv(a, b) == (a + b - 1) \div b

\* Page sizes of a table of t rows emptied p rows at a time.
ExpectedPages(t, p) ==
    [k \in 1..CeilDiv(t, p) |-> IF k * p <= t THEN p ELSE t % p]

PageSizes(cycles) == [k \in 1..Len(cycles) |-> Cardinality(cycles[k].asked)]

\* C4: with no other writer, every fetch returns up to a page of ids that
\* are in the table at that moment, never one an earlier cycle deleted; every
\* delete call removes exactly the ids of the fetch before it; when the loop
\* stops the table is empty, after pages of P, P, ..., T mod P rows.
C4_DeleteExactlyTheFetchedPage ==
    /\ del.pc = "delete" =>
          /\ del.ids \subseteq RowIds(store)
          /\ Cardinality(del.ids) = Min(DELETE_PAGE, Cardinality(store))
          /\ del.ids \cap del.gone = {}
    /\ \A k \in 1..Len(del.cycles) :
          /\ del.cycles[k].lost = del.cycles[k].asked
          /\ \A j \in 1..(k - 1) : del.cycles[j].asked \cap del.cycles[k].asked = {}
    /\ del.pc = "done" =>
          /\ store = {}
          /\ PageSizes(del.cycles) = ExpectedPages(del.total, DELETE_PAGE)
          /\ del.fetches = Len(del.cycles) + 1

\* A table of two full pages and a remainder, emptied in three cycles.
C4_Witness ==
    /\ del.pc = "done"
    /\ del.total = 2 * DELETE_PAGE + 1
    /\ PageSizes(del.cycles) = <<DELETE_PAGE, DELETE_PAGE, 1>>
    /\ store = {}

\* C5: with no other writer, the delete loop ends, after at most
\* ceil(total / page size) fetch/delete iterations.
C5_DeleteLoopTerminates ==
    /\ [](Len(del.cycles) <= CeilDiv(del.total, DELETE_PAGE))
    /\ [](del.pc \in {"loop", "delete"} => <>(del.pc = "done"))

\* The loop has ended after exactly ceil(total / page size) iterations on a
\* table that is not a whole number of pages.
C5_Witness ==
    /\ del.pc = "done"
    /\ del.total = MaxPlaces
    /\ del.total % DELETE_PAGE # 0
    /\ Len(del.cycles) = CeilDiv(del.total, DELETE_PAGE)

(***************************** properties: runs and options ****************)
SameButTimestamps(a, b) ==
    \A f \in (Columns \cup MetaFields) \ TimestampFields : a[f] = b[f]

OneRowPerKey(tbl) == \A a, b \in tbl : a["id"] = b["id"] => a = b

\* C6: after a second complete run over the same source, with the store
\* rejecting the same records, the table holds the keys it held after the
\* first run, one row per key, each row equal to the first run's row but for
\* the two timestamps.
C6_SecondRunConverges ==
    (Completed(run[1]) /\ Completed(run[2])) =>
        /\ RowIds(store) = RowIds(snap)
        /\ OneRowPerKey(store)
        /\ \A r \in store : \E q \in snap :
              q["id"] = r["id"] /\ SameButTimestamps(r, q)

\* Both runs completed, the second rewrote rows (fresh timestamps) through a
\* successful batch and through the fallback, over a table that also holds
\* rows from before.
C6_Witness ==
    /\ Completed(run[1])
    /\ Completed(run[2])
    /\ run[2].imported >= 2
    /\ run[2].errors >= 1
    /\ rejected # {}
    /\ store # snap
    /\ LegacyRow \in store
    /\ Cardinality(store) >= 4

\* The count the dry run prints: the source count, or the cap when a
\* non-zero cap below the source count is given.
WouldImport ==
    IF args.limit.py = "int" /\ args.limit.val > 0 /\ args.limit.val < Len(source)
    THEN args.limit.val
    ELSE Len(source)

NoSourceOrStoreCall(r) ==
    r.nPulls = 0 /\ r.nBatchCalls = 0 /\ r.nSingleCalls = 0 /\ r.calls = <<>>

\* C7 (as amended): a dry run reports the count step's result, the source
\* count capped by a non-zero --limit, and ends without a page pull or an
\* upsert call, for every source and every other option.
C7_DryRunReportsCappedCount ==
    \A p \in Procs :
        args.dry_run =>
            /\ run[p].pc \in {"start", "counted", "done"}
            /\ NoSourceOrStoreCall(run[p])
            /\ store = snap
            /\ run[p].pc = "done" =>
                  run[p].reported = [kind |-> "dry", count |-> WouldImport]

\* C7 as stated: the dry run reports the source count.
C7_DryRunReportsSourceCount ==
    \A p \in Procs :
        (args.dry_run /\ run[p].pc = "done") =>
            /\ run[p].reported = [kind |-> "dry", count |-> CountRecords(source)]
            /\ NoSourceOrStoreCall(run[p])

\* A dry run over the longest source with a cap of 1 and --yes has ended,
\* reporting 1.
C7_Witness ==
    \E p \in Procs :
        /\ args.dry_run
        /\ args.yes
        /\ args.limit = PyInt(1)
        /\ Len(source) = MaxRows
        /\ run[p].pc = "done"
        /\ run[p].reported = [kind |-> "dry", count |-> 1]
        /\ NoSourceOrStoreCall(run[p])

\* C8: with a cap N >= 1, the rows pulled over the whole run never exceed
\* N by more than one page, and neither do the records offered to the store.
C8_CapBoundsPulledRows ==
    \A p \in Procs :
        (args.limit.py = "int" /\ args.limit.val >= 1) =>
            /\ run[p].pulled <= args.limit.val + BATCH_SIZE
            /\ run[p].offered <= args.limit.val + BATCH_SIZE

\* A completed run with cap 1 over a source of more than cap + page rows
\* pulled one row and offered it.
C8_Witness ==
    \E p \in Procs :
        /\ args.limit = PyInt(1)
        /\ Len(source) > 1 + BATCH_SIZE
        /\ Completed(run[p])
        /\ run[p].pulled = 1
        /\ run[p].offered = 1

\* C9: with a cap N >= 0 configured, no page pull delivers rows once N rows
\* have been pulled (never more than N rows pulled); with N = 0 nothing is
\* pulled and nothing is written.
C9_CapStopsPulls ==
    \A p \in Procs :
        args.limit.py = "int" =>
            /\ run[p].pulled <= args.limit.val
            /\ args.limit.val = 0 =>
                  /\ run[p].pulled = 0
                  /\ run[p].nBatchCalls = 0
                  /\ run[p].nSingleCalls = 0

\* The configured cap has been reached by the rows pulled so far.
CapReached(r) == args.limit.py = "int" /\ r.pulled >= args.limit.val

\* A fetchmany of run p returns in this step.
PullReturns(p) ==
    /\ run[p].pc = "fetch"
    /\ run'[p].nPulls = run[p].nPulls + 1
    /\ run'[p].pc # "crashed"

\* C10 (its finite-run part): a page pull ends the loop exactly when it
\* returns no rows or the configured cap has been reached, and once the loop
\* has ended no page pull and no upsert call is issued.
C10_EndsOnEmptyPullOrCap ==
    [][\A p \in Procs :
          /\ PullReturns(p) =>
                (run'[p].pc = "done" <=> (run'[p].rows = <<>> \/ CapReached(run[p])))
          /\ run[p].pc = "done" =>
                /\ run'[p].nPulls = run[p].nPulls
                /\ run'[p].nBatchCalls = run[p].nBatchCalls
                /\ run'[p].nSingleCalls = run[p].nSingleCalls]_vars

(***************************** supporting checks ****************************)
\* What remains of C9 and C10 when the cap is absent or at least 1: the rows
\* pulled never exceed the cap, a pull ends the loop exactly when it returns
\* no rows or the cap has been reached, and nothing is issued afterwards.
CapRespectedUnlessZero ==
    \A p \in Procs :
        (args.limit.py = "int" /\ args.limit.val # 0) =>
            run[p].pulled <= args.limit.val

EndsOnEmptyPullOrCapUnlessZero ==
    [][\A p \in Procs :
          args.limit # PyInt(0) =>
              /\ PullReturns(p) =>
                    (run'[p].pc = "done"
                        <=> (run'[p].rows = <<>> \/ CapReached(run[p])))
              /\ run[p].pc = "done" =>
                    /\ run'[p].nPulls = run[p].nPulls
                    /\ run'[p].nBatchCalls = run[p].nBatchCalls
                    /\ run'[p].nSingleCalls = run[p].nSingleCalls]_vars

\* The importer is a sequential program: it keeps taking its next step.
FairSpec == Spec /\ WF_vars(Next)

\* Every run of the importer ends, whatever fails along the way.
LoadTerminates == <>(\A p \in Procs : run[p].pc \in Terminal)

(***************************** properties: errors and samples ***************)
\* C11: the list of sample messages never holds more than the cap, and the
\* cap never suppresses counting: in every state of a load run the number
\* of samples is min(errors, cap), errors counting every transform failure
\* and every failed single-record upsert.
C11_SamplesAreMinOfErrorsAndCap ==
    \A p \in Procs :
        /\ Len(run[p].error_samples) <= SAMPLE_CAP
        /\ Len(run[p].error_samples) = Min(run[p].errors, SAMPLE_CAP)

\* More errors than the cap, from transform failures and from failed
\* single-record upserts alike, and exactly cap samples.
C11_Witness ==
    \E p \in Procs :
        /\ run[p].errors > SAMPLE_CAP
        /\ Len(run[p].error_samples) = SAMPLE_CAP
        /\ run[p].error_samples[1].kind = "Transform error"
        /\ run[p].errors > run[p].err0

(***************************** properties: the page loop ********************)
\* The rows of a page that transform_record accepts, in page order.
RECURSIVE Survivors(_)
Survivors(rows) ==
    IF rows = <<>> THEN <<>>
    ELSE IF TransformRecord(Head(rows), 0).ok
         THEN <<Head(rows)>> \o Survivors(Tail(rows))
         ELSE Survivors(Tail(rows))

\* C12: a row whose transform fails is skipped, not the page or the run:
\* the batch handed to the sink is the records of exactly the page's rows
\* that transformed, in source order, at most a page of them; every failed
\* row adds 1 to errors; a page whose rows all fail causes no store call and
\* the next page is pulled.
C12_FailedRowsAreSkipped ==
    [][\A p \in Procs :
          (PullReturns(p) /\ run'[p].rows # <<>>) =>
              LET r == run'[p]
                  kept == Survivors(r.rows)
              IN /\ Len(r.batch) = Len(kept)
                 /\ Len(r.batch) <= BATCH_SIZE
                 /\ \A k \in 1..Len(kept) :
                       SameButTimestamps(r.batch[k], TransformRecord(kept[k], 0).rec)
                 /\ r.errors = run[p].errors + (Len(r.rows) - Len(kept))
                 /\ r.imported = run[p].imported
                 /\ r.pc = IF kept = <<>> THEN "fetch" ELSE "upsert"
                 /\ r.calls = <<>>
                 /\ r.nBatchCalls = run[p].nBatchCalls
                 /\ r.nSingleCalls = run[p].nSingleCalls
                 /\ store' = store]_vars

\* A full page whose first row failed to transform and whose later row
\* reached the sink, after an earlier page whose rows all failed.
C12_Witness ==
    \E p \in Procs :
        LET r == run[p] IN
        /\ r.pc = "upsert"
        /\ r.nPulls = 2
        /\ r.nBatchCalls = 0
        /\ r.errors = BATCH_SIZE + 1
        /\ Len(r.rows) = BATCH_SIZE
        /\ ~TransformRecord(r.rows[1], 0).ok
        /\ Len(r.batch) = BATCH_SIZE - 1

(***************************** properties: required id *********************)
\* C13: a source row whose id is NULL fails the transform: it yields no
\* record, so no batch and no upsert call (batch or single-record) ever
\* carries a record without an id.
C13_NullIdNeverUpserted ==
    \A p \in Procs :
          /\ \A k \in 1..Len(run[p].batch) : run[p].batch[k]["id"] # PyNone
          /\ \A k \in 1..Len(run[p].calls) :
                \A j \in 1..Len(run[p].calls[k].ids) :
                    run[p].calls[k].ids[j] # PyNone

(***************************** transform_record on its own *****************)
\* Values a DuckDB array column can deliver: NULL, an empty array, an array
\* of two distinct elements.
ArrayValues == {PyNone, PyList(<<>>), PyList(<<"b", "a">>)}

\* Values of `raw`: NULL, JSON text, text that is not JSON, a native struct.
RawValues == {PyNone, PyStr("{}"), PyStr("{oops"),
              PyDict(<<PyInt(1), PyObject("2025-11-19")>>)}

\* Rows handed to transform_record: every combination of the five array
\* columns, id present or NULL, every kind of raw.
TransformRows ==
    {[f \in Columns |->
        IF f \in ArrFields THEN arrs[f]
        ELSE IF f = "id" THEN id
        ELSE IF f = "raw" THEN raw
        ELSE SourceRow("good", 1)[f]] :
      arrs \in [ArrFields -> ArrayValues],
      id \in {PyNone, PyStr(IdNames[1])},
      raw \in RawValues}

\* One call transform_record(row, columns) at line 245.
ApplyTransform ==
    /\ xf = NoCall
    /\ xf' = [pc |-> "returned", row |-> source[1],
              out |-> TransformRecord(source[1], clock)]
    /\ clock' = clock + 1
    /\ UNCHANGED <<source, args, rejected, store, run, snap, mode, del, writes>>

TransformNext == ApplyTransform

InitTransform ==
    /\ mode = "single"
    /\ \E row \in TransformRows : source = <<row>>
    /\ args = [limit |-> PyNone, dry_run |-> FALSE, yes |-> FALSE]
    /\ rejected = {}
    /\ store = {}
    /\ clock = 1
    /\ run = [p \in Procs |-> InitRun]
    /\ snap = store
    /\ del = InitDel
    /\ xf = NoCall
    /\ writes = <<>>

TransformSpec == InitTransform /\ [][TransformNext]_vars

\* C14: in a record the transform returns, each of the five array fields,
\* independently, holds the source's elements in the source's order when the
\* source value is a non-empty array and None when it is NULL or empty; so
\* no array field is ever an empty list; id and every other column that is
\* neither an array nor raw is the source's value.
C14_ArraysNormalisedRestUnchanged ==
    (xf.pc = "returned" /\ xf.out.ok) =>
        /\ \A f \in ArrFields :
              /\ (xf.row[f].py = "list" /\ Len(xf.row[f].items) > 0) =>
                    /\ xf.out.rec[f].py = "list"
                    /\ xf.out.rec[f].items = xf.row[f].items
              /\ (xf.row[f] = PyNone \/ xf.row[f] = PyList(<<>>)) =>
                    xf.out.rec[f] = PyNone
              /\ xf.out.rec[f] # PyList(<<>>)
        /\ \A f \in Columns \ (ArrFields \cup {"raw"}) :
              xf.out.rec[f] = xf.row[f]

\* A record whose array fields came from a non-empty array, an empty array
\* and NULL at once.
C14_Witness ==
    /\ xf.pc = "returned"
    /\ xf.out.ok
    /\ xf.row["websites"] = PyList(<<"b", "a">>)
    /\ xf.row["phones"] = PyList(<<>>)
    /\ xf.row["emails"] = PyNone
    /\ xf.row["socials"] = PyList(<<"b", "a">>)
    /\ xf.out.rec["websites"].items = <<"b", "a">>
    /\ xf.out.rec["phones"] = PyNone
    /\ xf.out.rec["id"] = PyStr(IdNames[1])

(***************************** properties: source fault ********************)
\* C15: when a page pull raises, the run stops at once (no further page
\* pull, no further upsert call) and reports the imported and error totals
\* it had accumulated before the fault.
C15_SourceFaultStopsAndReports ==
    \A p \in Procs :
        run[p].pc = "crashed" =>
            /\ run[p].reported.kind # "none"
            /\ run[p].reported.imported = run[p].imported
            /\ run[p].reported.errors = run[p].errors

\* The stopping half of C15: after the fault the invocation issues no
\* call and its counters stay as they were.
StopsOnSourceFault ==
    [][\A p \in Procs : run[p].pc = "crashed" =>
            /\ run'[p] = run[p]
            /\ store' = store]_vars

(***************************** properties: the delete guard ****************)
\* C16: clear_places fetches a page or deletes only when the count read at
\* the start was not zero and the answer at the prompt was affirmative; with
\* a count of zero it ends with no fetch and no delete, and with rows but
\* any other answer it ends with no fetch and no delete and the table as
\* it was.
C16_DeleteOnlyWhenCountedAndConfirmed ==
    /\ (del.fetches > 0 \/ del.cycles # <<>> \/ del.pc \in {"loop", "delete", "done"}
          \/ store # snap) =>
            /\ del.total > 0
            /\ del.confirm.py = "str"
            /\ Lower(del.confirm.val) = "y"
    /\ del.pc = "empty" =>
            /\ del.total = 0
            /\ del.confirm = PyNone
            /\ del.fetches = 0 /\ del.cycles = <<>> /\ store = snap
    /\ del.pc = "aborted" =>
            /\ del.total > 0
            /\ Lower(del.confirm.val) # "y"
            /\ del.fetches = 0 /\ del.cycles = <<>> /\ store = snap
    /\ del.pc \in {"empty", "aborted"} => ~ENABLED DeleteNext

\* The full table, the answer "yes": aborted with nothing fetched.
C16_Witness ==
    /\ del.pc = "aborted"
    /\ del.total = MaxPlaces
    /\ del.confirm = PyStr("yes")
    /\ del.fetches = 0
    /\ Cardinality(store) = MaxPlaces

(***************************** two invocations at once *********************)
\* Two invocations of the importer over the same source and command line,
\* their steps interleaved in any order.
InitConc == InitLoad("concurrent", ConcRows)

ConcSpec == InitConc /\ [][Next]_vars

\* Keys some upsert call has written.
WrittenIds == {writes[k].rec["id"] : k \in 1..Len(writes)}

\* The record of the last successful upsert of key id.
LastWrite(id) ==
    LET last == CHOOSE k \in 1..Len(writes) :
                    /\ writes[k].rec["id"] = id
                    /\ \A j \in (k + 1)..Len(writes) : writes[j].rec["id"] # id
    IN writes[last].rec

\* C17: when two interleaved runs have both completed, the table holds one
\* row per key; its keys are those a single run leaves (the keys it held
\* before plus every key of the capped source that transforms and that the
\* store accepts); each written row is the record of the last successful
\* upsert of its key, and equals the transform of its source row but for the
\* two timestamps.
C17_ConcurrentRunsConverge ==
    (Completed(run[1]) /\ Completed(run[2])) =>
        LET src == BuildQuery(args.limit, source)
            accepted == WritableIds(src) \ rejected
        IN /\ OneRowPerKey(store)
           /\ RowIds(store) = RowIds(snap) \cup accepted
           /\ WrittenIds = accepted
           /\ \A r \in store :
                 IF r["id"] \in WrittenIds
                 THEN /\ r = LastWrite(r["id"])
                      /\ \E k \in 1..Len(src) :
                            /\ src[k]["id"] = r["id"]
                            /\ SameButTimestamps(r, TransformRecord(src[k], 0).rec)
                 ELSE r \in snap

\* Both runs completed after their upserts interleaved: one key was written
\* by 2 and then by 1, another by 1 and then by 2, so the table ends with a
\* row from each run.
C17_Witness ==
    /\ Completed(run[1]) /\ Completed(run[2])
    /\ \E i, j, k, l \in 1..Len(writes) :
          /\ i < j /\ k < l
          /\ writes[i].by = 2 /\ writes[j].by = 1
          /\ writes[i].rec["id"] = writes[j].rec["id"]
          /\ writes[i].rec # writes[j].rec
          /\ writes[k].by = 1 /\ writes[l].by = 2
          /\ writes[k].rec["id"] = writes[l].rec["id"]
          /\ writes[k].rec # writes[l].rec
          /\ writes[j].rec \in store
          /\ writes[l].rec \in store

(***************************** clear_places with a concurrent writer *******)
InitWriter ==
    /\ mode = "writer"
    /\ source = <<>>
    /\ args = [limit |-> PyNone, dry_run |-> FALSE, yes |-> FALSE]
    /\ rejected = {}
    /\ store \in {{PlaceRow(k) : k \in 1..t} : t \in 0..WriterPlaces}
    /\ clock = 1
    /\ run = [p \in Procs |-> InitRun]
    /\ snap = store
    /\ del = InitDel
    /\ xf = NoCall
    /\ writes = <<>>

WriterNext ==
    \/ DeleteNext
    \/ WriterInsert

WriterSpec == InitWriter /\ [][WriterNext]_vars

\* C18: with another client inserting, nothing but an empty fetch ends the
\* loop: a fetch that finds rows returns some of them and is followed by a
\* delete however many rows were deleted before, so a writer that keeps the
\* table non-empty keeps the loop running, past ceil(total / page size)
\* iterations and past a deleted count of total.
C18_OnlyAnEmptyFetchEndsTheLoop ==
    [][(del.pc = "loop" /\ del'.fetches = del.fetches + 1) =>
          /\ del'.pc = IF store = {} THEN "done" ELSE "delete"
          /\ store # {} => /\ del'.ids # {}
                           /\ del'.ids \subseteq RowIds(store)
          /\ del'.deleted = del.deleted]_vars

\* The loop still running after more iterations than ceil(total / page size)
\* with more rows deleted than were counted, and rows left to fetch.
C18_Witness ==
    /\ mode = "writer"
    /\ del.pc = "loop"
    /\ del.total > 0
    /\ Len(del.cycles) > CeilDiv(del.total, DELETE_PAGE)
    /\ del.deleted > del.total
    /\ store # {}

(***************************** properties: a killed run ********************)
\* C19: whenever a load run is killed, the table is valid: one row per id;
\* every row an upsert of the run wrote is the record of a source row with
\* that id; every row the run did not upsert is still there as it was.
C19_KilledRunLeavesValidStore ==
    /\ OneRowPerKey(store)
    /\ \A k \in 1..Len(writes) :
          \E j \in 1..Len(source) :
              /\ source[j]["id"] = writes[k].rec["id"]
              /\ TransformRecord(source[j], 0).ok
              /\ SameButTimestamps(writes[k].rec, TransformRecord(source[j], 0).rec)
    /\ \A r \in store :
          IF r["id"] \in WrittenIds THEN r = LastWrite(r["id"]) ELSE r \in snap
    /\ \A q \in snap : q["id"] \notin WrittenIds => q \in store

\* Killed in the middle of single-record fallback: the first record of the
\* batch has replaced the stale row of its id, the second is not written
\* yet, and the row the source does not know is untouched.
C19_Witness ==
    /\ run[1].pc = "fallback"
    /\ run[1].idx = 2
    /\ Len(run[1].batch) = 2
    /\ Len(writes) = 1
    /\ StaleRow \in snap /\ StaleRow \notin store
    /\ LegacyRow \in store
    /\ run[1].batch[2]["id"] \notin RowIds(store)

(***************************** properties: the deleted count ***************)
RECURSIVE SumOf(_)
SumOf(sizes) == IF sizes = <<>> THEN 0 ELSE Head(sizes) + SumOf(Tail(sizes))

\* C20: with no other client writing, after every completed fetch/delete
\* cycle the deleted count plus the rows still in the table is the total
\* read at the start; so the count never exceeds the total, is the sum of
\* the sizes of the pages deleted so far, and is the total once the loop
\* has ended.
C20_DeletedPlusRemainingIsTotal ==
    /\ del.pc \in {"loop", "done"} =>
          del.deleted + Cardinality(store) = del.total
    /\ del.pc \in {"loop", "delete", "done"} =>
          /\ del.deleted <= del.total
          /\ del.deleted = SumOf(PageSizes(del.cycles))
    /\ del.pc = "done" => del.deleted = del.total /\ store = {}

\* The loop ended after a last page shorter than the limit, the count
\* having reached the total of an odd-sized table.
C20_Witness ==
    /\ del.pc = "done"
    /\ del.total = MaxPlaces
    /\ del.deleted = MaxPlaces
    /\ Len(del.cycles) = CeilDiv(MaxPlaces, DELETE_PAGE)
    /\ Cardinality(del.cycles[Len(del.cycles)].asked) < DELETE_PAGE
         \/ MaxPlaces % DELETE_PAGE = 0

====
